---- MODULE Spec2Model ----
(***************************************************************************)
(* Model of hello_world.py: the registration thread (register_loop) and    *)
(* the websocket session coroutine (websocket_loop) which share the        *)
(* dictionary ws_info under the lock ws_lock.                              *)
(*                                                                         *)
(* A Python dict is a function whose DOMAIN is the set of its keys.        *)
(* A JSON string is a tuple of one-character strings, so that strip() and  *)
(* upper() can be computed.  Credential values are integers: 0 is a falsy  *)
(* value (the empty string or null) and n >= 1 is the non-empty string     *)
(* that the registration response of cycle n carried.                      *)
(***************************************************************************)
EXTENDS Integers, Sequences, FiniteSets, TLC

\* ---- bounds of the model
\* the inputs of a behaviour: registration responses accepted, connections opened, frames received
MaxEvents == 4

\* ---- program constants
RegInterval == 60
PollInterval == 1
BackoffInterval == 5
NODE_NAME == <<"w", "s", "_", "h", "e", "l", "l", "o">>

VARIABLES
  ws_info,     \* the shared dict (line 23)
  ws_lock,     \* TRUE while the threading.Lock is held (line 24)
  regPc,       \* position of register_loop: "post", "acquire", "update", "sleep"
  regAccepted, \* number of registration responses that passed line 35 so far
  regData,     \* register_loop's local `data` while it is being stored
  regLast,     \* the HTTP outcome of the current cycle (history)
  regBefore,   \* ws_info when the current cycle began (history)
  regSlept,    \* units slept by register_loop since its last call
  sPc,         \* position of websocket_loop
  url,         \* websocket_loop's local `url`
  token,       \* websocket_loop's local `token`
  conn,        \* number of websocket connections opened so far
  sOwed,       \* units of the line-74 sleep still to pass since the except branch was entered
  sLastSleep,  \* duration of websocket_loop's most recent sleep (0 before the first)
  inLog,       \* the frames ws.recv() returned, in order, each with its connection (history)
  outLog,      \* the frames ws.send() delivered, in order, each with its connection (history)
  out,         \* the frame handed to ws.send() while the send is pending
  calls        \* indices in inLog of the frames for which lines 61-66 ran (history)

vars == <<ws_info, ws_lock, regPc, regAccepted, regData, regLast, regBefore,
          regSlept, sPc, url, token, conn, sOwed, sLastSleep,
          inLog, outLog, out, calls>>

Events == regAccepted + conn + Len(inLog)

regVars == <<regPc, regAccepted, regData, regLast, regBefore, regSlept>>
sessVars == <<sPc, url, token, conn, sOwed, sLastSleep, inLog, outLog, out, calls>>
frameVars == <<inLog, outLog, out, calls>>

\* ---- dictionaries
EmptyDict == [k \in {} |-> 0]

\* dict.get(key): the value, or None (falsy, 0) when the key is missing
Get(d, k) == IF k \in DOMAIN d THEN d[k] ELSE 0

\* dict.update that stores websocket_url alone
UpdateUrlOnly(d, data) ==
  [x \in DOMAIN d \cup {"websocket_url"} |->
     IF x = "websocket_url" /\ x \in DOMAIN data THEN data[x] ELSE d[x]]

\* dict.update(data) as a whole
Update(d, data) == [x \in DOMAIN d \cup DOMAIN data |-> IF x \in DOMAIN data THEN data[x] ELSE d[x]]

\* ---- registration responses
\* The JSON objects the service may answer in cycle n: websocket_url and token are each
\* missing, falsy or the fresh string n; an additional field may be present.
Datas(n) ==
  { d \in UNION { [K -> {0, n}] : K \in SUBSET {"websocket_url", "token", "expires"} } :
      "expires" \in DOMAIN d => d["expires"] = n }

\* An outcome of requests.post + res.json(): a transport error (err), or a response with
\* a status (ok) and a body that is invalid JSON, JSON that is no object, or an object.
\* For a body that is no object, line 35 or line 37 raises, or the test of line 35 is false.
Responses(n) ==
  {[err |-> TRUE, ok |-> FALSE, json |-> "invalid", data |-> EmptyDict]}
  \cup {[err |-> FALSE, ok |-> o, json |-> j, data |-> EmptyDict] :
          o \in BOOLEAN, j \in {"invalid", "nonobject"}}
  \cup {[err |-> FALSE, ok |-> o, json |-> "object", data |-> d] :
          o \in BOOLEAN, d \in Datas(n)}

NoResponse == [err |-> FALSE, ok |-> FALSE, json |-> "none", data |-> EmptyDict]

\* line 35 reached and true: no exception in lines 33-35, res.ok, "websocket_url" in data
Accepted(r) ==
  /\ ~r.err
  /\ r.json = "object"
  /\ r.ok
  /\ "websocket_url" \in DOMAIN r.data

\* ---- JSON values and inbound frames
\* A JSON value: null, a string (s, a tuple of characters) or an object (m, a dict).
JNull == [t |-> "null", s |-> <<>>, m |-> EmptyDict]
JStr(x) == [t |-> "str", s |-> x, m |-> EmptyDict]
JObj(d) == [t |-> "object", s |-> <<>>, m |-> d]
JArr == [t |-> "array", s |-> <<>>, m |-> EmptyDict]

\* v.get(key, default) of a Python value: only a dict has .get
HasGet(v) == v.t = "object"
PyGet(v, k, default) == IF k \in DOMAIN v.m THEN v.m[k] ELSE default

\* Python truth of a JSON value
Truthy(v) ==
  CASE v.t = "null" -> FALSE
    [] v.t = "str" -> v.s # <<>>
    [] v.t = "object" -> DOMAIN v.m # {}
    [] OTHER -> TRUE

\* str.strip() and str.upper() on tuples of characters
Strip(x) ==
  LET keep == {i \in 1..Len(x) : x[i] # " "}
      lo == CHOOSE i \in keep : \A j \in keep : i <= j
      hi == CHOOSE i \in keep : \A j \in keep : j <= i
  IN IF keep = {} THEN <<>> ELSE SubSeq(x, lo, hi)

UpperChar(c) ==
  CASE c = "a" -> "A" [] c = "b" -> "B" [] c = "d" -> "D" [] c = "l" -> "L"
    [] c = "o" -> "O" [] c = "r" -> "R" [] c = "w" -> "W" [] OTHER -> c

Upper(x) == [i \in 1..Len(x) |-> UpperChar(x[i])]

\* lines 62-66: the outputs computed from inputs (a dict)
Handler(inputs) ==
  LET v == PyGet(inputs, "name", JNull)
      given == IF Truthy(v) THEN v.s ELSE <<>>
      name == IF Strip(given) # <<>> THEN Strip(given) ELSE <<"w", "o", "r", "l", "d">>
  IN [greeting |-> JStr(<<"H", "e", "l", "l", "o", " ">> \o name),
      shout |-> JStr(<<"H", "E", "L", "L", "O", " ">> \o Upper(name))]

\* the reply without the echo of the inbound uuid
ReplyNullUuid(payload) ==
  JObj([node |-> JStr(NODE_NAME),
        outputs |-> JObj(Handler(PyGet(payload, "inputs", JObj(EmptyDict)))),
        uuid |-> JNull])

\* lines 67-71: the frame sent for payload (json.dumps of a dict)
Reply(payload) ==
  JObj([node |-> JStr(NODE_NAME),
        outputs |-> JObj(Handler(PyGet(payload, "inputs", JObj(EmptyDict)))),
        uuid |-> PyGet(payload, "uuid", JNull)])

\* the dispatch without the test of the node field (lines 59-60 left out)
DispatchNoFilter(msg) ==
  IF ~msg.wellformed THEN "continue"
  ELSE IF ~HasGet(msg.json) THEN "raise"
  ELSE IF ~HasGet(PyGet(msg.json, "inputs", JObj(EmptyDict))) THEN "raise"
  ELSE "send"

\* the dispatch with inputs that are not a dict read as no inputs
DispatchLenient(msg) ==
  IF ~msg.wellformed THEN "continue"
  ELSE IF ~HasGet(msg.json) THEN "raise"
  ELSE IF PyGet(msg.json, "node", JNull) # JStr(NODE_NAME) THEN "continue"
  ELSE "send"

\* what lines 55-66 do with a received message
Dispatch(msg) ==
  IF ~msg.wellformed THEN "continue"                                   \* lines 56-58
  ELSE IF ~HasGet(msg.json) THEN "raise"                               \* line 59
  ELSE IF PyGet(msg.json, "node", JNull) # JStr(NODE_NAME) THEN "continue"  \* lines 59-60
  ELSE IF ~HasGet(PyGet(msg.json, "inputs", JObj(EmptyDict))) THEN "raise"  \* lines 61-62
  ELSE "send"

\* lines 61-62 are reached
HandlerRuns(msg) ==
  /\ msg.wellformed
  /\ HasGet(msg.json)
  /\ PyGet(msg.json, "node", JNull) = JStr(NODE_NAME)

\* the JSON objects received: invocations of this node with every shape of inputs and
\* uuid, an invocation of another node, and an object without a node field
Invocations ==
  { d \in UNION { [K -> {JNull, JStr(<<"1">>), JObj([name |-> JStr(<<" ", "a", "b">>)])}] :
                    K \in SUBSET {"inputs", "uuid"} } :
      /\ "inputs" \in DOMAIN d => d["inputs"].t # "str"
      /\ "uuid" \in DOMAIN d => d["uuid"].t = "str" }

Payloads ==
  { [k \in DOMAIN d \cup {"node"} |-> IF k = "node" THEN JStr(NODE_NAME) ELSE d[k]] : d \in Invocations }
  \cup {[node |-> JStr(<<"x">>), inputs |-> JObj([name |-> JStr(<<" ", "a", "b">>)]), uuid |-> JStr(<<"2">>)],
        [inputs |-> JObj([name |-> JStr(<<" ", "a", "b">>)]), uuid |-> JStr(<<"2">>)]}

\* the messages ws.recv() may return: text that is no JSON, JSON that is no object, objects
Frames ==
  {[wellformed |-> FALSE, json |-> JNull], [wellformed |-> TRUE, json |-> JArr]}
  \cup {[wellformed |-> TRUE, json |-> JObj(d)] : d \in Payloads}

NoOut == [re |-> 0, frame |-> JNull]

Init ==
  /\ ws_info = EmptyDict
  /\ ws_lock = FALSE
  /\ regPc = "post"
  /\ regAccepted = 0
  /\ regData = EmptyDict
  /\ regLast = NoResponse
  /\ regBefore = EmptyDict
  /\ regSlept = 0
  /\ sPc = "acquire"
  /\ url = 0
  /\ token = 0
  /\ conn = 0
  /\ sOwed = 0
  /\ sLastSleep = 0
  /\ inLog = <<>>
  /\ outLog = <<>>
  /\ out = NoOut
  /\ calls = <<>>

\* ---- register_loop

\* a registration call whose failure restarts the loop at once, without line 40
RegPostNoSleepOnError ==
  /\ regPc = "post"
  /\ \E r \in Responses(regAccepted + 1) :
       /\ regLast' = IF Accepted(r) THEN r ELSE [r EXCEPT !.data = EmptyDict]
       /\ IF Accepted(r)
            THEN /\ Events < MaxEvents
                 /\ regPc' = "acquire"
                 /\ regData' = r.data
                 /\ regAccepted' = regAccepted + 1
            ELSE /\ regPc' = "post"
                 /\ regData' = EmptyDict
                 /\ regAccepted' = regAccepted
  /\ regBefore' = ws_info
  /\ regSlept' = 0
  /\ UNCHANGED <<ws_info, ws_lock>>
  /\ UNCHANGED sessVars

\* lines 33-35 (and 38-39 when an exception is raised): one registration call
RegPost ==
  /\ regPc = "post"
  /\ \E r \in Responses(regAccepted + 1) :
       /\ regLast' = IF Accepted(r) THEN r ELSE [r EXCEPT !.data = EmptyDict]
       /\ IF Accepted(r)
            THEN /\ Events < MaxEvents
                 /\ regPc' = "acquire"
                 /\ regData' = r.data
                 /\ regAccepted' = regAccepted + 1
            ELSE /\ regPc' = "sleep"
                 /\ regData' = EmptyDict
                 /\ regAccepted' = regAccepted
  /\ regBefore' = ws_info
  /\ regSlept' = 0
  /\ UNCHANGED <<ws_info, ws_lock>>
  /\ UNCHANGED sessVars

\* line 36: with ws_lock (blocks while the lock is held)
RegAcquire ==
  /\ regPc = "acquire"
  /\ ~ws_lock
  /\ ws_lock' = TRUE
  /\ regPc' = "update"
  /\ UNCHANGED <<ws_info, regAccepted, regData, regLast, regBefore, regSlept>>
  /\ UNCHANGED sessVars

\* a store that also ends an open session, as if a new credential invalidated it
RegUpdateInterrupts ==
  /\ regPc = "update"
  /\ ws_info' = Update(ws_info, regData)
  /\ ws_lock' = FALSE
  /\ regPc' = "sleep"
  /\ regData' = EmptyDict
  /\ IF sPc \in {"recv", "send"}
       THEN sPc' = "backoff" /\ sOwed' = BackoffInterval /\ out' = NoOut
       ELSE UNCHANGED <<sPc, sOwed, out>>
  /\ UNCHANGED <<regAccepted, regLast, regBefore, regSlept>>
  /\ UNCHANGED <<url, token, conn, sLastSleep, inLog, outLog, calls>>

\* line 37 and the end of the with block: ws_info.update(data), one call that no other
\* thread interleaves with, then the lock is released
RegUpdate ==
  /\ regPc = "update"
  /\ ws_info' = Update(ws_info, regData)
  /\ ws_lock' = FALSE
  /\ regPc' = "sleep"
  /\ regData' = EmptyDict
  /\ UNCHANGED <<regAccepted, regLast, regBefore, regSlept>>
  /\ UNCHANGED sessVars

\* line 40: time.sleep(60), then the next iteration of while True
RegSleep ==
  /\ regPc = "sleep"
  /\ regPc' = "post"
  /\ regSlept' = regSlept + RegInterval
  /\ regLast' = NoResponse
  /\ regBefore' = EmptyDict
  /\ UNCHANGED <<ws_info, ws_lock, regAccepted, regData>>
  /\ UNCHANGED sessVars

register_loop == RegPost \/ RegAcquire \/ RegUpdate \/ RegSleep

\* ---- websocket_loop: waiting for the credential and connecting

\* entering the block of line 45 without waiting for the lock
SessAcquireNoLock ==
  /\ sPc = "acquire"
  /\ ws_lock' = TRUE
  /\ url' = Get(ws_info, "websocket_url")
  /\ sPc' = "read_token"
  /\ UNCHANGED <<ws_info, token, conn, sOwed, sLastSleep>>
  /\ UNCHANGED frameVars
  /\ UNCHANGED regVars

\* lines 45-46: acquire the lock and read websocket_url
SessAcquire ==
  /\ sPc = "acquire"
  /\ ~ws_lock
  /\ ws_lock' = TRUE
  /\ url' = Get(ws_info, "websocket_url")
  /\ sPc' = "read_token"
  /\ UNCHANGED <<ws_info, token, conn, sOwed, sLastSleep>>
  /\ UNCHANGED frameVars
  /\ UNCHANGED regVars

\* line 47: read token
SessReadToken ==
  /\ sPc = "read_token"
  /\ token' = Get(ws_info, "token")
  /\ sPc' = "release"
  /\ UNCHANGED <<ws_info, ws_lock, url, conn, sOwed, sLastSleep>>
  /\ UNCHANGED frameVars
  /\ UNCHANGED regVars

\* the poll's sleep taken inside the with block of line 45
SessReleaseKeepsLock ==
  /\ sPc = "release"
  /\ ws_lock' = (url = 0 \/ token = 0)
  /\ sPc' = IF url = 0 \/ token = 0 THEN "poll" ELSE "connect"
  /\ UNCHANGED <<ws_info, url, token, conn, sOwed, sLastSleep>>
  /\ UNCHANGED frameVars
  /\ UNCHANGED regVars

\* end of the with block of line 45, and the test of line 48
SessRelease ==
  /\ sPc = "release"
  /\ ws_lock' = FALSE
  /\ sPc' = IF url = 0 \/ token = 0 THEN "poll" ELSE "connect"
  /\ UNCHANGED <<ws_info, url, token, conn, sOwed, sLastSleep>>
  /\ UNCHANGED frameVars
  /\ UNCHANGED regVars

\* lines 49-50: sleep(1) and continue
SessPoll ==
  /\ sPc = "poll"
  /\ sPc' = "acquire"
  /\ sLastSleep' = PollInterval
  /\ UNCHANGED <<ws_info, ws_lock, url, token, conn, sOwed>>
  /\ UNCHANGED frameVars
  /\ UNCHANGED regVars

\* line 52: websockets.connect succeeds
SessConnectOk ==
  /\ sPc = "connect"
  /\ Events < MaxEvents
  /\ conn' = conn + 1
  /\ sPc' = "recv"
  /\ UNCHANGED <<ws_info, ws_lock, url, token, sOwed, sLastSleep>>
  /\ UNCHANGED frameVars
  /\ UNCHANGED regVars

\* a failed connect that throws the stored credential away
SessConnectFailClears ==
  /\ sPc = "connect"
  /\ sPc' = "backoff"
  /\ sOwed' = BackoffInterval
  /\ ws_info' = EmptyDict
  /\ UNCHANGED <<ws_lock, url, token, conn, sLastSleep>>
  /\ UNCHANGED frameVars
  /\ UNCHANGED regVars

\* line 52 raises: lines 72-73
SessConnectFail ==
  /\ sPc = "connect"
  /\ sPc' = "backoff"
  /\ sOwed' = BackoffInterval
  /\ UNCHANGED <<ws_info, ws_lock, url, token, conn, sLastSleep>>
  /\ UNCHANGED frameVars
  /\ UNCHANGED regVars

\* line 54 raises (receive error or closed connection): lines 72-73
SessRecvFail ==
  /\ sPc = "recv"
  /\ sPc' = "backoff"
  /\ sOwed' = BackoffInterval
  /\ UNCHANGED <<ws_info, ws_lock, url, token, conn, sLastSleep>>
  /\ UNCHANGED frameVars
  /\ UNCHANGED regVars

\* the backoff with the poll's interval in place of line 74's
SessBackoffShort ==
  /\ sPc = "backoff"
  /\ sPc' = "acquire"
  /\ sOwed' = sOwed - PollInterval
  /\ sLastSleep' = PollInterval
  /\ UNCHANGED <<ws_info, ws_lock, url, token, conn>>
  /\ UNCHANGED frameVars
  /\ UNCHANGED regVars

\* a backoff that retries the connect with the url and token it already has
SessBackoffRetries ==
  /\ sPc = "backoff"
  /\ sPc' = IF url = 0 \/ token = 0 THEN "acquire" ELSE "connect"
  /\ sOwed' = sOwed - BackoffInterval
  /\ sLastSleep' = BackoffInterval
  /\ UNCHANGED <<ws_info, ws_lock, url, token, conn>>
  /\ UNCHANGED frameVars
  /\ UNCHANGED regVars

\* line 74: sleep(5), then the next iteration of the outer while True
SessBackoff ==
  /\ sPc = "backoff"
  /\ sPc' = "acquire"
  /\ sOwed' = sOwed - BackoffInterval
  /\ sLastSleep' = BackoffInterval
  /\ UNCHANGED <<ws_info, ws_lock, url, token, conn>>
  /\ UNCHANGED frameVars
  /\ UNCHANGED regVars

\* ---- websocket_loop: the connected session

\* a receive that does not wait for the pending send of the previous frame
SessRecvEarly ==
  /\ sPc \in {"recv", "send"}
  /\ Events < MaxEvents
  /\ \E msg \in Frames :
       /\ inLog' = Append(inLog, [conn |-> conn, msg |-> msg])
       /\ calls' = IF HandlerRuns(msg) THEN Append(calls, Len(inLog) + 1) ELSE calls
       /\ CASE Dispatch(msg) = "continue" ->
                 /\ sPc' = sPc
                 /\ UNCHANGED <<out, sOwed>>
            [] Dispatch(msg) = "send" ->
                 /\ sPc' = "send"
                 /\ out' = [re |-> Len(inLog) + 1, frame |-> Reply(msg.json)]
                 /\ UNCHANGED sOwed
            [] Dispatch(msg) = "raise" ->
                 /\ sPc' = "backoff"
                 /\ sOwed' = BackoffInterval
                 /\ out' = NoOut
  /\ UNCHANGED <<ws_info, ws_lock, url, token, conn, sLastSleep, outLog>>
  /\ UNCHANGED regVars

\* lines 54-66: a message is received and handled up to the call of ws.send
SessRecv ==
  /\ sPc = "recv"
  /\ Events < MaxEvents
  /\ \E msg \in Frames :
       /\ inLog' = Append(inLog, [conn |-> conn, msg |-> msg])
       /\ calls' = IF HandlerRuns(msg) THEN Append(calls, Len(inLog) + 1) ELSE calls
       /\ CASE Dispatch(msg) = "continue" ->
                 /\ sPc' = "recv"
                 /\ UNCHANGED <<out, sOwed>>
            [] Dispatch(msg) = "send" ->
                 /\ sPc' = "send"
                 /\ out' = [re |-> Len(inLog) + 1, frame |-> Reply(msg.json)]
                 /\ UNCHANGED sOwed
            [] Dispatch(msg) = "raise" ->
                 /\ sPc' = "backoff"
                 /\ sOwed' = BackoffInterval
                 /\ UNCHANGED out
  /\ UNCHANGED <<ws_info, ws_lock, url, token, conn, sLastSleep, outLog>>
  /\ UNCHANGED regVars

\* line 67: ws.send delivers the frame
SessSendOk ==
  /\ sPc = "send"
  /\ outLog' = Append(outLog, [conn |-> conn, re |-> out.re, frame |-> out.frame])
  /\ out' = NoOut
  /\ sPc' = "recv"
  /\ UNCHANGED <<ws_info, ws_lock, url, token, conn, sOwed, sLastSleep, inLog, calls>>
  /\ UNCHANGED regVars

\* a send error that ends the coroutine instead of reaching lines 72-74
SessSendFailExits ==
  /\ sPc = "send"
  /\ out' = NoOut
  /\ sPc' = "exit"
  /\ sOwed' = BackoffInterval
  /\ UNCHANGED <<ws_info, ws_lock, url, token, conn, sLastSleep, inLog, outLog, calls>>
  /\ UNCHANGED regVars

\* a send error answered by reconnecting and sending the pending frame again
SessSendFailRedelivers ==
  /\ sPc = "send"
  /\ Events < MaxEvents
  /\ conn' = conn + 1
  /\ UNCHANGED <<ws_info, ws_lock, sPc, url, token, sOwed, sLastSleep>>
  /\ UNCHANGED frameVars
  /\ UNCHANGED regVars

\* line 67 raises (send error or closed connection): lines 72-73
SessSendFail ==
  /\ sPc = "send"
  /\ out' = NoOut
  /\ sPc' = "backoff"
  /\ sOwed' = BackoffInterval
  /\ UNCHANGED <<ws_info, ws_lock, url, token, conn, sLastSleep, inLog, outLog, calls>>
  /\ UNCHANGED regVars

websocket_loop ==
  \/ SessAcquire \/ SessReadToken \/ SessRelease \/ SessPoll
  \/ SessConnectOk \/ SessConnectFail \/ SessRecvFail \/ SessBackoff
  \/ SessRecv \/ SessSendOk \/ SessSendFail

Next == register_loop \/ websocket_loop

Spec == Init /\ [][Next]_vars

\* Scheduling: both threads are scheduled whenever they can take a step (the registration
\* call returns or times out, a sleep ends, a lock holder goes on to release the lock);
\* a peer that accepts connections accepts one of the attempts made again and again.
\* Nothing is assumed of the registration responses, of the frames or of the peer's errors.
FairSpec ==
  /\ Spec
  /\ WF_vars(RegPost)
  /\ WF_vars(RegAcquire)
  /\ WF_vars(RegUpdate)
  /\ WF_vars(RegSleep)
  /\ WF_vars(SessAcquire)
  /\ WF_vars(SessReadToken)
  /\ WF_vars(SessRelease)
  /\ WF_vars(SessPoll)
  /\ WF_vars(SessBackoff)
  /\ SF_vars(SessConnectOk)

\* ---- the states of the Session Loop, as positions of websocket_loop
State ==
  CASE sPc \in {"acquire", "read_token", "release", "poll"} -> "WAITING_FOR_CREDENTIAL"
    [] sPc = "connect" -> "CONNECTING"
    [] sPc \in {"recv", "send"} -> "CONNECTED"
    [] sPc = "backoff" -> "RECOVERING"

\* a registration cycle is over: register_loop has reached line 40
CycleDone == regPc = "sleep"

\* the response is successful and contains both websocket_url and token
FullResponse(r) ==
  /\ ~r.err
  /\ r.ok
  /\ r.json = "object"
  /\ {"websocket_url", "token"} \subseteq DOMAIN r.data

\* ---- C1
\* C1 as stated: after a cycle whose response is successful and carries websocket_url and
\* token, the shared state is exactly that response, whatever it held before.
C1_ExactlyLatest ==
  (CycleDone /\ FullResponse(regLast)) => ws_info = regLast.data

\* C1 amended: after such a cycle every field of the response is in the shared state with
\* the response's value (so websocket_url and token are the response's), and the only other
\* fields are those the state held before the cycle, with their earlier values.
C1_LatestMerged ==
  (CycleDone /\ FullResponse(regLast)) =>
    /\ \A k \in DOMAIN regLast.data : k \in DOMAIN ws_info /\ ws_info[k] = regLast.data[k]
    /\ \A k \in DOMAIN ws_info \ DOMAIN regLast.data :
         k \in DOMAIN regBefore /\ ws_info[k] = regBefore[k]

\* a second full response has been stored over a state that held a field it does not carry
C1_Witness ==
  /\ CycleDone
  /\ FullResponse(regLast)
  /\ regAccepted >= 2
  /\ "expires" \in DOMAIN ws_info \ DOMAIN regLast.data
  /\ ws_info["websocket_url"] = 2
  /\ ws_info["token"] = 2

\* ---- C2
\* a failed cycle in the sense of C2: network error or timeout, non-success status, a body
\* that is no JSON (or no JSON object), or a body without websocket_url or without token
RegFailure(r) ==
  \/ r.err
  \/ ~r.ok
  \/ r.json # "object"
  \/ "websocket_url" \notin DOMAIN r.data
  \/ "token" \notin DOMAIN r.data

\* C2: after a failed registration cycle the shared state equals its value before the cycle.
C2_FailureKeepsState ==
  (CycleDone /\ RegFailure(regLast)) => ws_info = regBefore

\* ---- C3
\* C3: whenever the shared state holds a websocket_url and a token (non-empty strings), both
\* come from the same registration response.
C3_Wholesale ==
  ({"websocket_url", "token"} \subseteq DOMAIN ws_info
     /\ ws_info["websocket_url"] # 0 /\ ws_info["token"] # 0)
  => ws_info["websocket_url"] = ws_info["token"]

\* ---- C4
\* C4: register_loop's with block (line 37) and websocket_loop's with block (lines 46-47)
\* are never occupied together, and the pair websocket_loop leaves its block with is the
\* content of ws_info at that instant.
C4_MutualExclusion ==
  /\ ~(regPc = "update" /\ sPc \in {"read_token", "release"})
  /\ (regPc = "update" \/ sPc \in {"read_token", "release"}) => ws_lock
  /\ sPc = "release" =>
       /\ url = Get(ws_info, "websocket_url")
       /\ token = Get(ws_info, "token")

\* websocket_loop has read a stored credential while register_loop waits for the lock with
\* a response that changes it
C4_Witness ==
  /\ sPc = "release"
  /\ regPc = "acquire"
  /\ url # 0
  /\ token # 0
  /\ Get(regData, "token") # token

\* ---- C5
\* an inbound message addressed to this node with well-formed inputs: a JSON object whose
\* node is NODE_NAME and whose inputs, when given, are a mapping
Invocation(msg) ==
  /\ msg.wellformed
  /\ msg.json.t = "object"
  /\ "node" \in DOMAIN msg.json.m
  /\ msg.json.m["node"] = JStr(NODE_NAME)
  /\ "inputs" \in DOMAIN msg.json.m => msg.json.m["inputs"].t = "object"

\* the outbound frames sent in answer to the i-th received message
Answers(i) == {j \in 1..Len(outLog) : outLog[j].re = i}

\* the i-th received message is still being handled: its frame is handed to ws.send
InHand(i) == sPc = "send" /\ out.re = i

\* frame answers the inbound message msg: this node's name, Handler(inputs), the uuid echoed
AnswerTo(frame, msg) ==
  /\ frame.t = "object"
  /\ DOMAIN frame.m = {"node", "outputs", "uuid"}
  /\ frame.m["node"] = JStr(NODE_NAME)
  /\ frame.m["outputs"] =
       JObj(Handler(IF "inputs" \in DOMAIN msg.json.m THEN msg.json.m["inputs"] ELSE JObj(EmptyDict)))
  /\ frame.m["uuid"] = (IF "uuid" \in DOMAIN msg.json.m THEN msg.json.m["uuid"] ELSE JNull)

\* every outbound frame answers one earlier inbound invocation, on its connection, correctly
EveryAnswerMatches ==
  \A j \in 1..Len(outLog) :
    /\ outLog[j].re \in 1..Len(inLog)
    /\ Invocation(inLog[outLog[j].re].msg)
    /\ AnswerTo(outLog[j].frame, inLog[outLog[j].re].msg)
    /\ \A k \in 1..Len(outLog) : outLog[k].re = outLog[j].re => k = j

\* C5 as stated: every invocation received gets exactly one outbound frame (once it is no
\* longer in hand), and every outbound frame answers one invocation.
C5_ExactlyOne ==
  /\ \A i \in 1..Len(inLog) :
       Invocation(inLog[i].msg) => (InHand(i) \/ Cardinality(Answers(i)) = 1)
  /\ EveryAnswerMatches

\* C5 amended: every invocation gets at most one outbound frame, and exactly one once
\* ws.send has returned (websocket_loop is back at ws.recv on that connection, or has
\* received a later frame on it); when ws.send raises, none is sent.  Every outbound
\* frame answers one invocation: node, Handler(inputs) and the uuid echoed (null if absent).
C5_OneUnlessSendFails ==
  /\ \A i \in 1..Len(inLog) :
       Invocation(inLog[i].msg) =>
         /\ Cardinality(Answers(i)) <= 1
         /\ InHand(i) => Answers(i) = {}
         /\ ( \/ (i = Len(inLog) /\ sPc = "recv" /\ inLog[i].conn = conn)
              \/ (i < Len(inLog) /\ inLog[i + 1].conn = inLog[i].conn) )
            => Cardinality(Answers(i)) = 1
  /\ EveryAnswerMatches

\* two invocations answered: one with name " ab" and uuid "1", one without inputs and uuid
C5_Witness ==
  /\ Len(outLog) = 2
  /\ \E j \in 1..2 :
       /\ outLog[j].frame.m["uuid"] = JStr(<<"1">>)
       /\ outLog[j].frame.m["outputs"].m["greeting"] = JStr(<<"H", "e", "l", "l", "o", " ", "a", "b">>)
       /\ outLog[j].frame.m["outputs"].m["shout"] = JStr(<<"H", "E", "L", "L", "O", " ", "A", "B">>)
  /\ \E j \in 1..2 :
       /\ outLog[j].frame.m["uuid"] = JNull
       /\ outLog[j].frame.m["outputs"].m["greeting"] = JStr(<<"H", "e", "l", "l", "o", " ", "w", "o", "r", "l", "d">>)
       /\ DOMAIN inLog[outLog[j].re].msg.json.m = {"node"}

\* ---- C6
\* an inbound JSON object whose node field is missing or differs from NODE_NAME
NotForThisNode(msg) ==
  /\ msg.wellformed
  /\ msg.json.t = "object"
  /\ "node" \in DOMAIN msg.json.m => msg.json.m["node"] # JStr(NODE_NAME)

\* this step receives a message
Receives == Len(inLog') = Len(inLog) + 1

\* the step leaves websocket_loop at ws.recv on the same socket and sends and calls nothing
DiscardsAndContinues ==
  /\ sPc' = "recv"
  /\ conn' = conn
  /\ out' = out
  /\ outLog' = outLog
  /\ calls' = calls

\* C6: a frame not addressed to this node never reaches the handler, is never answered,
\* and the step that receives it leaves the loop connected on the same socket at ws.recv.
C6_OthersIgnored ==
  /\ [](\A i \in 1..Len(inLog) :
          NotForThisNode(inLog[i].msg) =>
            /\ \A c \in 1..Len(calls) : calls[c] # i
            /\ Answers(i) = {}
            /\ out.re # i)
  /\ [][(Receives /\ NotForThisNode(inLog'[Len(inLog')].msg)) => DiscardsAndContinues]_vars

\* a frame for another node was discarded and the next frame, an invocation, was handled
\* on the same connection
C6_Witness ==
  /\ Len(inLog) = 2
  /\ NotForThisNode(inLog[1].msg)
  /\ "node" \in DOMAIN inLog[1].msg.json.m
  /\ inLog[2].conn = inLog[1].conn
  /\ Invocation(inLog[2].msg)
  /\ sPc = "send"

\* ---- C7
\* an inbound message that does not parse as the invocation shape: text that is no JSON,
\* JSON that is no object, or an object without the node field
NotAnInvocationShape(msg) ==
  \/ ~msg.wellformed
  \/ msg.json.t # "object"
  \/ "node" \notin DOMAIN msg.json.m

\* C7: the step that receives such a message discards it: nothing is sent, and the loop
\* stays connected on the same socket at ws.recv (it does not enter RECOVERING).
C7_UnparsedDiscarded ==
  [][(Receives /\ NotAnInvocationShape(inLog'[Len(inLog')].msg)) => DiscardsAndContinues]_vars

\* ---- C8
\* C8: leaving CONNECTING without a new connection, and leaving CONNECTED, lead to
\* RECOVERING; RECOVERING is left only for WAITING_FOR_CREDENTIAL and only by the 5-unit
\* sleep; no connect attempt is made while the backoff of an earlier failure is still owed.
C8_Transitions ==
  /\ [][ /\ (State = "CONNECTING" /\ sPc' # sPc /\ conn' = conn) => State' = "RECOVERING"
         /\ (State = "CONNECTED" /\ State' # "CONNECTED") => State' = "RECOVERING"
         /\ (State # "RECOVERING" /\ State' = "RECOVERING") => sOwed' = BackoffInterval
         /\ (State = "RECOVERING" /\ sPc' # sPc) =>
              /\ State' = "WAITING_FOR_CREDENTIAL"
              /\ sLastSleep' = 5
              /\ sOwed' = 0 ]_vars
  /\ [](State = "CONNECTING" => sOwed = 0)

\* a connect attempt after a connection was lost and the backoff sleep has passed
C8_Witness ==
  /\ State = "CONNECTING"
  /\ conn >= 1
  /\ sLastSleep = 5
  /\ sOwed = 0

\* ---- C9
\* C9: once a connection has been lost (RECOVERING with an earlier connection), the loop is
\* eventually CONNECTED again, unless the behaviour has used up its inputs; and no step of
\* websocket_loop issues a registration call or moves register_loop.
C9_Reconnects ==
  /\ (State = "RECOVERING" /\ conn >= 1) ~> (State = "CONNECTED" \/ Events >= MaxEvents)
  /\ [][sPc' # sPc => (regPc' = regPc /\ regLast' = regLast /\ regAccepted' = regAccepted)]_vars

\* ---- C10
\* C10: while websocket_loop is connected, a step of register_loop (a response, a store, a
\* sleep) leaves websocket_loop where it is, on the same socket; and websocket_loop assigns
\* url and token, and holds the lock, only in WAITING_FOR_CREDENTIAL.
C10_SessionUndisturbed ==
  /\ [][ /\ (State = "CONNECTED" /\ (regPc' # regPc \/ ws_info' # ws_info))
              => (sPc' = sPc /\ conn' = conn /\ url' = url /\ token' = token /\ out' = out)
         /\ (url' # url \/ token' # token) => State = "WAITING_FOR_CREDENTIAL" ]_vars
  /\ [](State = "CONNECTED" => sPc \notin {"read_token", "release"})

\* the credential was replaced while the session stayed connected with the earlier one
C10_Witness ==
  /\ State = "CONNECTED"
  /\ regPc = "sleep"
  /\ regAccepted >= 2
  /\ Get(ws_info, "websocket_url") # url
  /\ Get(ws_info, "token") # token

\* ---- C11
\* the shared state holds a non-empty websocket_url and a non-empty token
Populated(d) == Get(d, "websocket_url") # 0 /\ Get(d, "token") # 0

\* C11: the loop starts in WAITING_FOR_CREDENTIAL; while the shared state lacks a non-empty
\* websocket_url or token no connect attempt is under way; none precedes the first accepted
\* registration; every attempt uses a non-empty url and token; and a read that finds the
\* state populated leads to CONNECTING, a read that does not leads to the 1-unit poll.
C11_WaitsForCredential ==
  /\ (conn = 0 /\ sLastSleep = 0 /\ sOwed = 0 /\ regAccepted = 0) => State = "WAITING_FOR_CREDENTIAL"
  /\ [](State = "CONNECTING" => (Populated(ws_info) /\ regAccepted >= 1 /\ url # 0 /\ token # 0))
  /\ [][ /\ (sPc = "release" /\ sPc' # sPc) =>
              sPc' = (IF Populated(ws_info) THEN "connect" ELSE "poll")
         /\ (sPc = "poll" /\ sPc' # sPc) => (sPc' = "acquire" /\ sLastSleep' = 1) ]_vars

\* ---- C12
\* this step is a registration attempt: requests.post returns or raises
Attempt == regLast' # NoResponse /\ regLast' # regLast

\* C12: an attempt is made only at the top of the loop with no earlier attempt pending, is
\* followed by the sleep of line 40 whatever its outcome, and the loop comes back to the
\* top only out of that sleep, after exactly 60 units; register_loop always has a next
\* step (it waits only for the lock while websocket_loop holds it).
C12_FixedCadence ==
  /\ [][ /\ Attempt => /\ regPc = "post"
                       /\ regLast = NoResponse
                       /\ regPc' \in {"acquire", "sleep"}
                       /\ regSlept' = 0
         /\ (regPc = "acquire" /\ regPc' # regPc) => regPc' = "update"
         /\ (regPc = "update" /\ regPc' # regPc) => regPc' = "sleep"
         /\ (regPc = "sleep" /\ regPc' # regPc) => regPc' = "post"
         /\ (regPc # "post" /\ regPc' = "post") =>
              (regPc = "sleep" /\ regSlept = 0 /\ regSlept' = 60 /\ regLast' = NoResponse) ]_vars
  /\ [](/\ regPc \in {"post", "acquire", "update", "sleep"}
        /\ regPc = "post" => ENABLED RegPost
        /\ regPc = "acquire" => (ENABLED RegAcquire \/ sPc \in {"read_token", "release"})
        /\ regPc = "update" => ENABLED RegUpdate
        /\ regPc = "sleep" => ENABLED RegSleep)

\* a failed attempt that followed an accepted one and its sleep is itself followed by the sleep
C12_Witness ==
  /\ regPc = "sleep"
  /\ regAccepted >= 1
  /\ regLast.err
  /\ regSlept = 0

\* ---- C13
\* C13: websocket_loop is always at one of its own steps and a step of it is possible there
\* (at line 45 it may wait for the lock, which register_loop holds only for its update);
\* a connect, receive or send that does not succeed leads to the backoff, not out of the loop.
C13_NoTerminalState ==
  /\ [](/\ sPc \in {"acquire", "read_token", "release", "poll", "connect", "recv", "send", "backoff"}
        /\ ENABLED websocket_loop \/ (sPc = "acquire" /\ regPc = "update" /\ ENABLED RegUpdate)
        /\ sPc = "backoff" => ENABLED SessBackoff
        /\ sPc = "poll" => ENABLED SessPoll)
  /\ [][(sPc \in {"connect", "recv", "send"} /\ sPc' \notin {sPc, "recv", "send"}) =>
          sPc' = "backoff"]_vars

\* a handled invocation, a discarded frame, a socket error and a failed connect lie behind
C13_Witness ==
  /\ sPc = "backoff"
  /\ conn = 1
  /\ sLastSleep = BackoffInterval
  /\ Len(inLog) = 2
  /\ Len(outLog) = 1

\* ---- C14
\* C14: a frame is received only when no earlier one is still being handled; the frame in
\* hand is always the latest received; each Handler call is made for the frame just
\* received; outbound frames are sent in the order of the inbound frames they answer.
C14_OneAtATime ==
  /\ [](/\ sPc = "send" => out.re = Len(inLog)
        /\ sPc # "send" => out = NoOut
        /\ \A j, k \in 1..Len(outLog) : j < k => outLog[j].re < outLog[k].re
        /\ \A j, k \in 1..Len(calls) : j < k => calls[j] < calls[k])
  /\ [][ /\ Receives => (sPc = "recv" /\ out = NoOut /\ \A i \in 1..Len(inLog) : ~InHand(i))
         /\ calls' # calls => (Receives /\ calls' = Append(calls, Len(inLog'))) ]_vars

\* two invocations were answered, one after the other
C14_Witness ==
  /\ Len(inLog) = 2
  /\ Len(outLog) = 2
  /\ outLog[1].re = 1
  /\ outLog[2].re = 2

\* ---- C15
\* C15: every outbound frame was sent on the connection its invocation arrived on; a frame
\* is sent only for the latest message of the live connection; a result whose send (or
\* whose connection) failed is dropped and never sent later.
C15_NoRedelivery ==
  /\ [](/\ \A j \in 1..Len(outLog) : outLog[j].conn = inLog[outLog[j].re].conn
        /\ sPc = "send" => (out.re \in 1..Len(inLog) /\ inLog[out.re].conn = conn)
        /\ sPc \notin {"recv", "send"} => out = NoOut)
  /\ [][outLog' # outLog =>
          /\ Len(outLog') = Len(outLog) + 1
          /\ SubSeq(outLog', 1, Len(outLog)) = outLog
          /\ outLog'[Len(outLog')].conn = conn
          /\ outLog'[Len(outLog')].re = Len(inLog)
          /\ inLog[Len(inLog)].conn = conn
          /\ conn' = conn]_vars

\* an invocation whose send failed stays unanswered on the next connection
C15_Witness ==
  /\ sPc = "recv"
  /\ conn = 2
  /\ \E i \in 1..Len(inLog) :
       /\ Dispatch(inLog[i].msg) = "send"
       /\ inLog[i].conn = 1
       /\ Answers(i) = {}

\* ---- C16
\* C16: the shared state changes only in register_loop's update of line 37, by that update,
\* in a step that leaves websocket_loop where it is; no step of websocket_loop changes
\* it, and a failed connect leaves the credential it used in place.
C16_OnlyRegistrationWrites ==
  [][ /\ ws_info' # ws_info =>
           /\ regPc = "update"
           /\ regPc' = "sleep"
           /\ ws_info' = Update(ws_info, regData)
           /\ UNCHANGED sessVars
      /\ sessVars' # sessVars => ws_info' = ws_info
      /\ (sPc = "connect" /\ sPc' = "backoff") =>
           (ws_info' = ws_info /\ url' = url /\ token' = token) ]_vars

\* the connect with the stored credential failed and the credential is still stored
C16_Witness ==
  /\ sPc = "backoff"
  /\ conn = 0
  /\ Populated(ws_info)
  /\ url = Get(ws_info, "websocket_url")
  /\ token = Get(ws_info, "token")

\* ---- C17
\* C17: CONNECTING is entered only from the release of the lock after a read, with the url
\* and token equal to what the shared state holds at that instant and with no backoff
\* owed; a backoff or poll is followed by a new read; url and token change only by
\* reading the shared state under the lock.
C17_FreshSnapshot ==
  [][ /\ (sPc' = "connect" /\ sPc # "connect") =>
           /\ sPc = "release"
           /\ ws_lock
           /\ url' = Get(ws_info', "websocket_url")
           /\ token' = Get(ws_info', "token")
           /\ sOwed' = 0
      /\ (sPc \in {"backoff", "poll"} /\ sPc' # sPc) => sPc' = "acquire"
      /\ url' # url => (sPc = "acquire" /\ url' = Get(ws_info, "websocket_url"))
      /\ token' # token => (sPc = "read_token" /\ token' = Get(ws_info, "token"))
      /\ (sPc \in {"read_token", "release"} /\ sPc' # sPc) =>
           (ws_info' = ws_info /\ url' = Get(ws_info, "websocket_url")) ]_vars

\* after an earlier connection, the attempt is made with the second credential
C17_Witness ==
  /\ sPc = "connect"
  /\ conn = 1
  /\ regAccepted = 2
  /\ url = 2
  /\ token = 2
  /\ ws_info = [websocket_url |-> 2, token |-> 2]

\* ---- C18
\* a frame for this node whose inputs are present and not a mapping: line 62 raises
HandlerFails(msg) ==
  /\ msg.wellformed
  /\ msg.json.t = "object"
  /\ "node" \in DOMAIN msg.json.m
  /\ msg.json.m["node"] = JStr(NODE_NAME)
  /\ "inputs" \in DOMAIN msg.json.m
  /\ msg.json.m["inputs"].t # "object"

\* C18: receiving a matched frame whose handling raises sends nothing and puts the loop in
\* RECOVERING with the 5-unit backoff owed; no outbound frame ever answers that frame;
\* its connection is not used again; and from RECOVERING the loop goes on to the next
\* read of the credential.
C18_HandlerFailurePropagates ==
  /\ [][(Receives /\ HandlerFails(inLog'[Len(inLog')].msg)) =>
          /\ sPc' = "backoff"
          /\ sOwed' = 5
          /\ out' = NoOut
          /\ outLog' = outLog
          /\ calls' = Append(calls, Len(inLog'))]_vars
  /\ [](\A i \in 1..Len(inLog) :
          HandlerFails(inLog[i].msg) =>
            /\ Answers(i) = {}
            /\ ~InHand(i)
            /\ inLog[i].conn = conn => sPc \notin {"recv", "send"})
  /\ [](sPc = "backoff" => ENABLED SessBackoff)
  /\ [][(sPc = "backoff" /\ sPc' # sPc) => sPc' = "acquire"]_vars

\* after the handler failed on the first connection the loop is connected again
C18_Witness ==
  /\ sPc = "recv"
  /\ conn = 2
  /\ Len(inLog) = 1
  /\ HandlerFails(inLog[1].msg)
  /\ outLog = <<>>

\* ---- C19
\* C19: the lock is held exactly while register_loop is at its update or websocket_loop is
\* between its two reads and the release, never by both; the holder can always take its
\* step, so the lock is always released; a free lock can be taken by whichever loop asks.
C19_LockScope ==
  /\ ws_lock <=> (regPc = "update" \/ sPc \in {"read_token", "release"})
  /\ ~(regPc = "update" /\ sPc \in {"read_token", "release"})
  /\ regPc = "update" => ENABLED RegUpdate
  /\ sPc = "read_token" => ENABLED SessReadToken
  /\ sPc = "release" => ENABLED SessRelease
  /\ (regPc = "acquire" /\ ~ws_lock) => ENABLED RegAcquire
  /\ (sPc = "acquire" /\ ~ws_lock) => ENABLED SessAcquire

\* register_loop holds the lock while websocket_loop is in the middle of a send
C19_Witness ==
  /\ regPc = "update"
  /\ ws_lock
  /\ sPc = "send"

\* ---- C20
\* C20: once the shared state holds a non-empty websocket_url and token it does so after
\* every later step, and from then on a poll is followed by a read that leads to
\* CONNECTING.
C20_NeverAbsentAgain ==
  [][ /\ Populated(ws_info) => Populated(ws_info')
      /\ (Populated(ws_info) /\ sPc = "release" /\ sPc' # sPc /\ sLastSleep = 1) =>
           sPc' = "connect" ]_vars

====
